---- MODULE Spec2Model ----
(***************************************************************************)
(* trcli: ResultsUploader.upload_results and the ApiRequestHandler calls   *)
(* it drives (src/trcli/api/results_uploader.py,                           *)
(* src/trcli/api/api_request_handler.py).                                  *)
(*                                                                         *)
(* The controlling thread walks the upload pipeline; the two batch calls   *)
(* (add_cases, add_results) run their units on a ThreadPoolExecutor whose  *)
(* workers interleave with the controlling thread.                         *)
(*                                                                         *)
(* Conventions: Python None for an identifier is 0; a Python string        *)
(* (error message) is a sequence, "" being << >>; Python truth of a        *)
(* str/list/tuple is non-emptiness.                                        *)
(***************************************************************************)
EXTENDS Integers, Sequences, FiniteSets, TLC

(***************************************************************************)
(* Bounds of the model.                                                    *)
(***************************************************************************)
MaxProjects == 2      \* projects in one get_projects response
MaxSuiteId == 2       \* remote suite ids are 1..MaxSuiteId
MaxSections == 1      \* sections of the parsed tree
MaxCases == 2         \* test cases of the parsed tree
MaxChunks == 2        \* result chunks produced for one add_results call
MaxBodies == 4        \* bodies handed to one add_suites / add_sections call
\* Pool widths: imported from trcli.constants by the program; bounded here,
\* the case pool narrower than the number of cases so that units queue.
MAX_WORKERS_ADD_CASE == 1
MAX_WORKERS_ADD_RESULTS == 2

(***************************************************************************)
(* trcli.constants (imported by both source files).                        *)
(***************************************************************************)
multiple_project_same_name == 0 - 1
not_existing_project == 0 - 2
other_error == 0 - 3
single_suite == 1
single_suite_baselines == 2
multiple_suites == 3

NoError == << >>
TransportError == <<"transport error">>
ProjectName == "P"
SuiteIds == 1 .. MaxSuiteId
SecIdx == 1 .. MaxSections
CaseIdx == 1 .. MaxCases
\* identifier the remote service assigns to a created section / case
CreatedId(i) == 10 + i

Range(s) == {s[i] : i \in DOMAIN s}
\* Python truth value of a str, list or tuple
Truthy(v) == Len(v) # 0
SeqsUpTo(S, n) == UNION {[1 .. k -> S] : k \in 0 .. n}
Injective(s) == \A i, j \in DOMAIN s : i # j => s[i] # s[j]
\* the elements of the set S of integers in increasing order
RECURSIVE SortedSeq(_)
SortedSeq(S) ==
    IF S = {} THEN << >>
    ELSE LET m == CHOOSE x \in S : \A y \in S : x <= y
         IN <<m>> \o SortedSeq(S \ {m})

VARIABLES
    pc,             \* position of the controlling thread
    exit_code,      \* the code passed to exit(), -1 before that
    project_data,   \* ProjectData returned by get_project_id
    store,          \* data_provider: suite id, section ids, case ids
    env_run_id,     \* environment.run_id (0 = not supplied)
    remote,         \* the section and case ids the remote service held when
                    \* the upload started (SpecRemote; unused elsewhere)
    run_id,         \* run id used for results and close
    suite_ret,      \* what __get_suite_id returned (valid: the id is one
                    \* the remote service listed or assigned; pinned: the
                    \* suite id given beforehand; error: Transport's error;
                    \* prompts, consent: the prompt shown and the reply;
                    \* listed: number of suites get_suite_ids returned)
    item_ret,       \* per stage "sections" / "cases": what
                    \* __add_missing_sections / __add_missing_test_cases
                    \* did and returned (see NoItemRet)
    updates,        \* history: the keywords update_data was called with
    kind,           \* action_string of the batch in progress
    units,          \* the units (futures) of the batch in progress
    fut,            \* state of each future
    res,            \* error message of each finished unit's response
    yielded,        \* futures as_completed has handed to handle_futures
    responses,      \* handle_futures' list of successful responses
    error_message,  \* handle_futures' error message
    ci,             \* position of the cancel loop
    interrupted,    \* KeyboardInterrupt caught by handle_futures
    completed,      \* responses the last batch call returned
    batch_error,    \* error the last batch call returned
    progress,       \* progress bar position
    stages,         \* history: stages started, in order
    failed,         \* history: stages whose handler reported a failure
    calls,          \* history: remote calls issued, in order of stage
    logs,           \* history: diagnostics passed to environment.log
    prompts,        \* history: number of prompts shown
    sent,           \* history: units handed to Transport in this batch
    observed,       \* history: units seen by the completion loop, in order
    pending_at_cancel, \* history: units not started when cancel was requested
    cancel_ok       \* history: units whose cancel() call succeeded

vars == <<pc, exit_code, project_data, store, env_run_id, remote, run_id,
          suite_ret,
          item_ret, updates,
          kind, units, fut, res, yielded, responses, error_message, ci,
          interrupted, completed, batch_error, progress, stages, failed, calls, logs,
          prompts, sent, observed, pending_at_cancel, cancel_ok>>

batchVars == <<kind, units, fut, res, yielded, responses, error_message, ci,
               interrupted,
               completed, batch_error, progress, sent, observed,
               pending_at_cancel, cancel_ok>>

(***************************************************************************)
(* ApiRequestHandler: single-request operations.                           *)
(***************************************************************************)
\* remote projects: the id is unique per project; the projects named "P"
\* carry id 1 and those named "p", a name that differs from "P" in case
\* only, id 2
Projects ==
    {[name |-> n, id |-> IF n = "P" THEN 1 ELSE 2, suite_mode |-> m] :
        n \in {"P", "p"}, m \in 1 .. 4}
ProjectResponses ==
    {[error_message |-> TransportError, projects |-> << >>]} \cup
    {[error_message |-> NoError, projects |-> ps] :
        ps \in SeqsUpTo(Projects, MaxProjects)}

\* variant of SameName: the case of the letters is not compared
SameName_ignores_case(a, b) == a = b \/ {a, b} = {"P", "p"}
\* get_project_id 48: project["name"] == project_name
SameName(a, b) == a = b

get_project_id(response, project_name) ==
    IF ~Truthy(response.error_message)
    THEN LET idx == {i \in DOMAIN response.projects :
                        SameName(response.projects[i].name, project_name)}
             first == CHOOSE i \in idx : \A j \in idx : i <= j
         IN IF Cardinality(idx) = 1
            THEN [project_id |-> response.projects[first].id,
                  suite_mode |-> response.projects[first].suite_mode,
                  error_message |-> response.error_message]
            ELSE IF Cardinality(idx) > 1
            THEN [project_id |-> multiple_project_same_name,
                  suite_mode |-> 0 - 1,
                  error_message |-> <<"more_than_one_project">>]
            ELSE [project_id |-> not_existing_project,
                  suite_mode |-> 0 - 1,
                  error_message |-> <<"project_doesnt_exists">>]
    ELSE [project_id |-> other_error,
          suite_mode |-> 0 - 1,
          error_message |-> response.error_message]

SuiteResponses ==
    {[error_message |-> TransportError, suites |-> << >>]} \cup
    {[error_message |-> NoError, suites |-> s] :
        s \in {q \in SeqsUpTo(SuiteIds, MaxSuiteId) : Injective(q)}}

\* returns the pair (bool or None, error string)
check_suite_id(suite_id, response) ==
    IF ~Truthy(response.error_message)
    THEN IF suite_id \in Range(response.suites)
         THEN <<"True", NoError>>
         ELSE <<"False", NoError>>
    ELSE <<"None", response.error_message>>

\* variant of get_suite_ids: the resources handed to update_data are in
\* the reverse order of the ids returned
get_suite_ids_resources_reversed(response) ==
    IF ~Truthy(response.error_message)
    THEN [suite_ids |-> response.suites,
          returned_resources |->
              [i \in DOMAIN response.suites |->
                  response.suites[Len(response.suites) + 1 - i]],
          error_message |-> NoError]
    ELSE [suite_ids |-> << >>,
          returned_resources |-> << >>,
          error_message |-> response.error_message]
get_suite_ids(response) ==
    IF ~Truthy(response.error_message)
    THEN [suite_ids |-> response.suites,
          returned_resources |-> response.suites,
          error_message |-> NoError]
    ELSE [suite_ids |-> << >>,
          returned_resources |-> << >>,
          error_message |-> response.error_message]


(***************************************************************************)
(* ApiDataProvider (trcli.data_providers, not among the sources): the      *)
(* bodies it hands out and the identifiers it merges back.                 *)
(***************************************************************************)
\* add_suites_data: one body, for the parsed suite
add_suites_data == <<"suite">>
\* add_sections_data: one body per section that has no id yet
add_sections_data(st) == SortedSeq({i \in SecIdx : st.sections[i] = 0})
\* add_cases: one body per test case that has no id yet
add_cases_data(st) == {i \in CaseIdx : st.cases[i] = 0}
\* update_data(suite_data): the suite id of the first resource
update_suite_data(st, resources) ==
    IF Len(resources) > 0 THEN [st EXCEPT !.suite_id = resources[1]] ELSE st
\* update_data(section_data): each created section gets its remote id
update_section_data(st, created) ==
    [st EXCEPT !.sections =
        [i \in SecIdx |-> IF i \in created THEN CreatedId(i) ELSE @[i]]]
\* update_data(case_data): each created case gets its remote id
update_case_data(st, created) ==
    [st EXCEPT !.cases =
        [i \in CaseIdx |-> IF i \in created THEN CreatedId(i) ELSE @[i]]]
\* rows in results chunk u (progress weight of the unit)
ChunkRows(u) == u

(***************************************************************************)
(* add_suites / add_sections: one POST per body, in order, stopping at the *)
(* first error.  f is the position of the first body Transport rejects     *)
(* (f > Len(bodies): none).                                                *)
(***************************************************************************)
\* variant of add_sequential: the rejected body is posted a second time
add_sequential_retries(bodies, f) ==
    [created |-> SubSeq(bodies, 1, IF f <= Len(bodies) THEN f - 1 ELSE Len(bodies)),
     posts |-> IF f <= Len(bodies) THEN f + 1 ELSE Len(bodies),
     error_message |-> IF f <= Len(bodies) THEN TransportError ELSE NoError]
add_sequential(bodies, f) ==
    [created |-> SubSeq(bodies, 1, IF f <= Len(bodies) THEN f - 1 ELSE Len(bodies)),
     posts |-> IF f <= Len(bodies) THEN f ELSE Len(bodies),
     error_message |-> IF f <= Len(bodies) THEN TransportError ELSE NoError]

\* variant of check_missing_section_ids: the remote ids are not subtracted
check_missing_section_ids_no_difference(st, response) ==
    IF ~Truthy(response.error_message)
    THEN [missing |-> {st.sections[i] : i \in SecIdx},
          error_message |-> response.error_message]
    ELSE [missing |-> {}, error_message |-> response.error_message]
check_missing_section_ids(st, response) ==
    IF ~Truthy(response.error_message)
    THEN [missing |-> {st.sections[i] : i \in SecIdx} \ response.ids,
          error_message |-> response.error_message]
    ELSE [missing |-> {}, error_message |-> response.error_message]

\* variant of check_missing_test_cases_ids: the remote ids are not
\* subtracted
check_missing_test_cases_ids_no_difference(st, response) ==
    IF ~Truthy(response.error_message)
    THEN [missing |-> {st.cases[i] : i \in CaseIdx},
          error_message |-> response.error_message]
    ELSE [missing |-> {}, error_message |-> response.error_message]
\* variant of check_missing_test_cases_ids: test cases without an id are
\* left out of the local list
check_missing_test_cases_ids_skips_none(st, response) ==
    IF ~Truthy(response.error_message)
    THEN [missing |-> {st.cases[i] : i \in {j \in CaseIdx : st.cases[j] # 0}}
                      \ response.ids,
          error_message |-> response.error_message]
    ELSE [missing |-> {}, error_message |-> response.error_message]
\* variant of check_missing_test_cases_ids: after a failed get_cases every
\* local id counts as missing
check_missing_test_cases_ids_all_missing_on_error(st, response) ==
    [missing |-> {st.cases[i] : i \in CaseIdx} \ response.ids,
     error_message |-> response.error_message]
check_missing_test_cases_ids(st, response) ==
    IF ~Truthy(response.error_message)
    THEN [missing |-> {st.cases[i] : i \in CaseIdx} \ response.ids,
          error_message |-> response.error_message]
    ELSE [missing |-> {}, error_message |-> response.error_message]

SectionResponses ==
    {[error_message |-> TransportError, ids |-> {}]} \cup
    {[error_message |-> NoError, ids |-> S] : S \in SUBSET SecIdx}
CaseResponses ==
    {[error_message |-> TransportError, ids |-> {}]} \cup
    {[error_message |-> NoError, ids |-> S] : S \in SUBSET CaseIdx}

(***************************************************************************)
(* ResultsUploader: suite resolution.                                      *)
(***************************************************************************)
\* variant of prompt_user_and_add_items: the added items are not returned
prompt_user_and_add_items_drops_items(answer, added, fault_message) ==
    [added_items |-> << >>,
     result_code |-> IF answer /\ ~Truthy(added.error_message) THEN 1 ELSE 0 - 1,
     logs |-> IF ~answer THEN {fault_message}
              ELSE IF Truthy(added.error_message) THEN {added.error_message}
              ELSE {},
     posts |-> IF answer THEN added.posts ELSE 0,
     prompts |-> 1]
\* variant of prompt_user_and_add_items: the error of add_function is dropped
prompt_user_and_add_items_ignores_error(answer, added, fault_message) ==
    [added_items |-> IF answer THEN added.created ELSE << >>,
     result_code |-> IF answer THEN 1 ELSE 0 - 1,
     logs |-> IF answer THEN {} ELSE {fault_message},
     posts |-> IF answer THEN added.posts ELSE 0,
     prompts |-> 1]
\* variant of prompt_user_and_add_items: add_function is called whatever the
\* user replies
prompt_user_and_add_items_adds_anyway(answer, added, fault_message) ==
    [added_items |-> added.created,
     result_code |-> IF answer /\ ~Truthy(added.error_message) THEN 1 ELSE 0 - 1,
     logs |-> IF ~answer THEN {fault_message}
              ELSE IF Truthy(added.error_message) THEN {added.error_message}
              ELSE {},
     posts |-> added.posts,
     prompts |-> 1]
\* __prompt_user_and_add_items; added is what add_function would return
\* (the project id passed on is never 0, so "if project_id" only selects
\* the call with or without the argument)
prompt_user_and_add_items(answer, added, fault_message) ==
    IF answer
    THEN [added_items |-> added.created,
          result_code |-> IF Truthy(added.error_message) THEN 0 - 1 ELSE 1,
          logs |-> IF Truthy(added.error_message) THEN {added.error_message} ELSE {},
          posts |-> added.posts,
          prompts |-> 1]
    ELSE [added_items |-> << >>,
          result_code |-> 0 - 1,
          logs |-> {fault_message},
          posts |-> 0,
          prompts |-> 1]

\* __check_suite_id
uploader_check_suite_id(suite_id, response) ==
    IF Truthy(check_suite_id(suite_id, response))
    THEN [suite_id |-> suite_id, result_code |-> 1, logs |-> {}]
    ELSE [suite_id |-> suite_id, result_code |-> 0 - 1,
          logs |-> {<<"missing_suite">>}]

Repeat(x, n) == [i \in 1 .. n |-> x]

\* variant of SuiteBranch: the given suite id is not looked at
SuiteBranch_ignores_given_id(given, suite_mode) ==
    IF suite_mode = multiple_suites THEN "multiple_suites"
    ELSE IF suite_mode = single_suite_baselines THEN "single_suite_baselines"
    ELSE IF suite_mode = single_suite THEN "single_suite"
    ELSE "unknown"
\* variant of SuiteBranch: an unrecognised mode is treated as single_suite
SuiteBranch_defaults_to_single(given, suite_mode) ==
    IF given # 0 THEN "check"
    ELSE IF suite_mode = multiple_suites THEN "multiple_suites"
    ELSE IF suite_mode = single_suite_baselines THEN "single_suite_baselines"
    ELSE "single_suite"
\* __get_suite_id, the tests at lines 125, 126, 146, 162 and 171: the branch
\* taken for the suite id of the data provider and the project's suite mode
SuiteBranch(given, suite_mode) ==
    IF given # 0 THEN "check"
    ELSE IF suite_mode = multiple_suites THEN "multiple_suites"
    ELSE IF suite_mode = single_suite_baselines THEN "single_suite_baselines"
    ELSE IF suite_mode = single_suite THEN "single_suite"
    ELSE "unknown"

\* __get_suite_id.  response answers get_suites, answer is the user's reply
\* to the prompt, f and newid describe Transport's reply to add_suite.
\* raised: suite_ids[0] on an empty list raises IndexError.
get_suite_id(st, suite_mode, response, answer, f, newid) ==
    LET base == [suite_id |-> 0 - 1, result_code |-> 0 - 1, raised |-> FALSE,
                 logs |-> {}, prompts |-> 0, calls |-> << >>, store |-> st,
                 handler_ok |-> FALSE, remote |-> {}, error |-> NoError,
                 consent |-> "none", listed |-> 0]
        branch == SuiteBranch(st.suite_id, suite_mode)
    IN
    IF branch # "check"
    THEN IF branch = "multiple_suites"
         THEN LET sent_ == add_sequential(add_suites_data, f)
                  added == [sent_ EXCEPT !.created = Repeat(newid, Len(@))]
                  p == prompt_user_and_add_items(answer, added,
                                                 <<"no_user_agreement">>)
              IN [base EXCEPT
                    !.suite_id = IF Truthy(p.added_items)
                                 THEN p.added_items[1] ELSE 0 - 1,
                    !.result_code = p.result_code,
                    !.logs = p.logs,
                    !.prompts = p.prompts,
                    !.consent = IF answer THEN "yes" ELSE "no",
                    !.calls = Repeat("add_suite", p.posts),
                    !.store = IF answer
                              THEN update_suite_data(st, added.created) ELSE st,
                    !.handler_ok = (p.result_code = 1),
                    !.remote = Range(p.added_items),
                    !.error = IF answer THEN added.error_message ELSE NoError]
         ELSE IF branch = "single_suite_baselines"
         THEN LET g == get_suite_ids(response)
                  upd == [base EXCEPT
                            !.calls = <<"get_suites">>,
                            !.store = update_suite_data(st, g.returned_resources),
                            !.remote = Range(g.suite_ids),
                            !.listed = Len(g.suite_ids),
                            !.error = g.error_message]
              IN IF Truthy(g.error_message)
                 THEN [upd EXCEPT !.logs = {g.error_message}]
                 ELSE IF Len(g.suite_ids) > 1
                 THEN [upd EXCEPT !.logs = {<<"not_unique_suite_id">>}]
                 ELSE IF Len(g.suite_ids) = 0
                 THEN [upd EXCEPT !.raised = TRUE]
                 ELSE [upd EXCEPT !.suite_id = g.suite_ids[1],
                                  !.result_code = 1,
                                  !.handler_ok = TRUE]
         ELSE IF branch = "single_suite"
         THEN LET g == get_suite_ids(response)
                  upd == [base EXCEPT
                            !.calls = <<"get_suites">>,
                            !.store = update_suite_data(st, g.returned_resources),
                            !.remote = Range(g.suite_ids),
                            !.listed = Len(g.suite_ids),
                            !.error = g.error_message]
              IN IF Truthy(g.error_message)
                 THEN [upd EXCEPT !.logs = {g.error_message}]
                 ELSE IF Len(g.suite_ids) = 0
                 THEN [upd EXCEPT !.raised = TRUE]
                 ELSE [upd EXCEPT !.suite_id = g.suite_ids[1],
                                  !.result_code = 1,
                                  !.handler_ok = TRUE]
         ELSE [base EXCEPT !.logs = {<<"unknown_suite_mode">>}]
    ELSE LET c == uploader_check_suite_id(st.suite_id, response)
         IN [base EXCEPT
               !.suite_id = c.suite_id,
               !.result_code = c.result_code,
               !.logs = c.logs,
               !.calls = <<"get_suites">>,
               !.handler_ok = (check_suite_id(st.suite_id, response)[1] = "True"),
               !.remote = Range(response.suites),
               !.error = response.error_message]


(***************************************************************************)
(* Initial state: the ResultsUploader has been constructed.  The parsed    *)
(* tree declares an id for its first a sections and first b cases         *)
(* (section/case i declares id i) and none for the others;                 *)
(* environment.suite_id, when given, is already in the data provider.      *)
(***************************************************************************)
Stores ==
    {[suite_id |-> s,
      sections |-> [i \in SecIdx |-> IF i <= a THEN i ELSE 0],
      cases |-> [i \in CaseIdx |-> IF i <= b THEN i ELSE 0]] :
        s \in 0 .. MaxSuiteId, a \in 0 .. MaxSections, b \in 0 .. MaxCases}

\* the two stages that add missing items
ItemStages == {"sections", "cases"}
\* history of one such stage before it has run.  ran: the handler was
\* entered; check_error: the error of the check call; missing: the check
\* succeeded and some local identifier is not among the remote ones;
\* prompts: prompts shown; consent: the reply; result_code: the code
\* returned (0: nothing returned); added: the created items returned;
\* raised: the handler ended in an exception
NoItemRet ==
    [ran |-> FALSE, check_error |-> NoError, missing |-> FALSE, prompts |-> 0,
     consent |-> "none", result_code |-> 0, added |-> {}, raised |-> FALSE]

\* no remote side is tracked: every listing is drawn freely
NoRemote == [sections |-> {}, cases |-> {}]

NoBatch ==
    /\ kind = "none"
    /\ units = {}
    /\ fut = << >>
    /\ res = << >>
    /\ yielded = {}
    /\ responses = << >>
    /\ error_message = NoError
    /\ ci = 0
    /\ interrupted = FALSE
    /\ progress = 0
    /\ sent = {}
    /\ observed = << >>
    /\ pending_at_cancel = {}
    /\ cancel_ok = {}

Init ==
    /\ pc = "project"
    /\ exit_code = 0 - 1
    /\ project_data = [project_id |-> 0, suite_mode |-> 0, error_message |-> NoError]
    /\ store \in Stores
    /\ env_run_id \in {0, 7}
    /\ remote = NoRemote
    /\ run_id = 0
    /\ suite_ret = [suite_id |-> 0, result_code |-> 0, raised |-> FALSE,
                    valid |-> FALSE, pinned |-> 0, error |-> NoError,
                    prompts |-> 0, consent |-> "none", listed |-> 0]
    /\ item_ret = [s \in ItemStages |-> NoItemRet]
    /\ updates = {}
    /\ NoBatch
    /\ completed = {}
    /\ batch_error = NoError
    /\ stages = << >>
    /\ failed = {}
    /\ calls = << >>
    /\ logs = {}
    /\ prompts = 0

\* exit(1)
Exit1 ==
    /\ pc' = "exit"
    /\ exit_code' = 1

(***************************************************************************)
(* upload_results, lines 46-56: resolve the project.                       *)
(***************************************************************************)
\* the branch of upload_results taken for a ProjectData
ProjectBranch(pd) ==
    IF pd.project_id = not_existing_project THEN "not_existing"
    ELSE IF pd.project_id = other_error THEN "other_error"
    ELSE "continue"

GetProject ==
    /\ pc = "project"
    /\ \E response \in ProjectResponses :
         LET pd == get_project_id(response, ProjectName)
         IN /\ project_data' = pd
            /\ calls' = Append(calls, "get_projects")
            /\ stages' = Append(stages, "project")
            /\ failed' = IF Truthy(pd.error_message)
                         THEN failed \cup {"project"} ELSE failed
            /\ IF ProjectBranch(pd) = "not_existing"
               THEN /\ logs' = logs \cup {pd.error_message}
                    /\ Exit1
               ELSE IF ProjectBranch(pd) = "other_error"
               THEN /\ logs' = logs \cup {<<"error_checking_project">>}
                    /\ Exit1
               ELSE /\ logs' = logs
                    /\ pc' = "suite"
                    /\ exit_code' = exit_code
    /\ UNCHANGED <<store, env_run_id, remote, run_id, suite_ret, item_ret, updates, prompts>>
    /\ UNCHANGED batchVars

(***************************************************************************)
(* upload_results, lines 58-62: resolve the suite.                         *)
(***************************************************************************)
ResolveSuite ==
    /\ pc = "suite"
    /\ \E response \in SuiteResponses, answer \in BOOLEAN,
          f \in 1 .. 2, newid \in SuiteIds :
         LET r == get_suite_id(store, project_data.suite_mode, response,
                               answer, f, newid)
         IN /\ suite_ret' = [suite_id |-> r.suite_id,
                             result_code |-> r.result_code,
                             raised |-> r.raised,
                             valid |-> r.suite_id \in r.remote,
                             pinned |-> store.suite_id,
                             error |-> r.error,
                             prompts |-> r.prompts,
                             consent |-> r.consent,
                             listed |-> r.listed]
            /\ store' = r.store
            \* update_data(suite_data=...) at 109 and 139: only with a
            \* non-empty list of resources
            /\ updates' = IF r.calls # << >> /\ r.remote # {}
                              /\ SuiteBranch(store.suite_id,
                                             project_data.suite_mode) # "check"
                           THEN updates \cup {"suite_data"} ELSE updates
            /\ calls' = calls \o r.calls
            /\ logs' = logs \cup r.logs
            /\ prompts' = prompts + r.prompts
            /\ stages' = Append(stages, "suite")
            /\ failed' = IF r.handler_ok THEN failed ELSE failed \cup {"suite"}
            /\ IF r.raised
               THEN /\ pc' = "raised"
                    /\ exit_code' = exit_code
               ELSE IF r.result_code = 0 - 1
               THEN Exit1
               ELSE /\ pc' = "sections"
                    /\ exit_code' = exit_code
    /\ UNCHANGED <<project_data, env_run_id, remote, run_id, item_ret>>
    /\ UNCHANGED batchVars

(***************************************************************************)
(* upload_results, lines 64-68, and __add_missing_sections.                *)
(***************************************************************************)
add_missing_sections(response, answer, f) ==
    /\ pc = "sections"
    /\   LET chk == check_missing_section_ids(store, response)
             added == add_sequential(add_sections_data(store), f)
             p == prompt_user_and_add_items(answer, added,
                                            <<"no_user_agreement">>)
             prompted == chk.missing # {}
             result_code ==
                 IF prompted THEN p.result_code
                 ELSE IF Truthy(chk.error_message) THEN 0 - 1 ELSE 1
         IN /\ calls' = calls \o <<"get_sections">> \o
                        (IF prompted THEN Repeat("add_section", p.posts)
                         ELSE << >>)
            /\ prompts' = prompts + (IF prompted THEN p.prompts ELSE 0)
            /\ logs' = logs \cup
                       (IF prompted THEN p.logs
                        ELSE IF Truthy(chk.error_message)
                        THEN {<<"error_checking_missing_item">>} ELSE {})
            /\ store' = IF prompted /\ answer
                        THEN update_section_data(store, Range(added.created))
                        ELSE store
            /\ updates' = IF prompted /\ answer /\ added.created # << >>
                           THEN updates \cup {"section_data"} ELSE updates
            /\ item_ret' = [item_ret EXCEPT !["sections"] =
                   [ran |-> TRUE,
                    check_error |-> response.error_message,
                    missing |-> /\ ~Truthy(response.error_message)
                                /\ \E i \in SecIdx :
                                      store.sections[i] \notin response.ids,
                    prompts |-> IF prompted THEN p.prompts ELSE 0,
                    consent |-> IF ~prompted THEN "none"
                                ELSE IF answer THEN "yes" ELSE "no",
                    result_code |-> result_code,
                    added |-> IF prompted THEN Range(p.added_items) ELSE {},
                    raised |-> FALSE]]
            /\ stages' = Append(stages, "sections")
            /\ failed' = IF result_code = 1 THEN failed
                         ELSE failed \cup {"sections"}
            /\ IF result_code = 0 - 1
               THEN Exit1
               ELSE /\ pc' = "cases"
                    /\ exit_code' = exit_code
    /\ UNCHANGED <<project_data, env_run_id, remote, run_id, suite_ret>>
    /\ UNCHANGED batchVars
\* the stage under any get_sections response, any reply to the prompt and
\* any position of the first rejected body
ReconcileSections ==
    \E response \in SectionResponses, answer \in BOOLEAN,
       f \in 1 .. MaxSections + 1 :
        add_missing_sections(response, answer, f)


(***************************************************************************)
(* The batch: futures on a ThreadPoolExecutor.                             *)
(*   pending            submitted, in the work queue                       *)
(*   running            a worker is inside client.send_post                *)
(*   finished           send_post returned (res holds its error message)   *)
(*   cancelled          cancel() succeeded, still in the work queue        *)
(*   cancelled_notified a worker took the cancelled item off the queue     *)
(***************************************************************************)
\* executor.submit for every body (add_cases 250-257, add_results 309-314)
StartBatch(k, us) ==
    /\ kind' = k
    /\ units' = us
    /\ fut' = [u \in us |-> "pending"]
    /\ res' = [u \in us |-> NoError]
    /\ yielded' = {}
    /\ responses' = << >>
    /\ error_message' = NoError
    /\ ci' = 0
    /\ interrupted' = FALSE
    /\ completed' = {}
    /\ batch_error' = NoError
    /\ progress' = 0
    /\ sent' = {}
    /\ observed' = << >>
    /\ pending_at_cancel' = {}
    /\ cancel_ok' = {}

\* variant of Width: the pool has a worker for every unit
Width_unbounded(k) == MaxCases + MaxChunks
Width(k) == IF k = "add_case" THEN MAX_WORKERS_ADD_CASE ELSE MAX_WORKERS_ADD_RESULTS
Endpoint(k) == IF k = "add_case" THEN "add_case" ELSE "add_results_for_cases"
Running == {u \in units : fut[u] = "running"}
Queued == {u \in units : fut[u] \in {"pending", "cancelled"}}
\* as_completed hands out a future once it finished or its cancellation
\* was notified by a worker
Completed(u) == fut[u] \in {"finished", "cancelled_notified"}
\* progress_bar.update argument of handle_futures
\* variant of Weight: every unit advances the progress bar by one
Weight_one_per_unit(k, u) == 1
Weight(k, u) == IF k = "add_results" THEN ChunkRows(u) ELSE 1
\* the total the progress bar is opened with (246-248, 302-307): the
\* number of case bodies, or the number of result rows over the chunks us
RECURSIVE RowsOf(_)
RowsOf(us) ==
    IF us = {} THEN 0
    ELSE LET u == CHOOSE v \in us : TRUE IN ChunkRows(u) + RowsOf(us \ {u})
results_amount(k, us) == IF k = "add_results" THEN RowsOf(us) ELSE Cardinality(us)

\* a free worker takes the next work item off the queue (FIFO) and, unless
\* the future was cancelled, enters client.send_post
WorkerTake ==
    /\ pc \in {"drain", "cancel", "join"}
    /\ Queued # {}
    /\ Cardinality(Running) < Width(kind)
    /\ LET u == CHOOSE x \in Queued : \A y \in Queued : x <= y
       IN IF fut[u] = "pending"
          THEN /\ fut' = [fut EXCEPT ![u] = "running"]
               /\ sent' = sent \cup {u}
               /\ calls' = Append(calls, Endpoint(kind))
          ELSE /\ fut' = [fut EXCEPT ![u] = "cancelled_notified"]
               /\ UNCHANGED <<sent, calls>>
    /\ UNCHANGED <<pc, exit_code, project_data, store, env_run_id, remote, run_id,
                   suite_ret, item_ret, updates, kind, units, res, yielded, responses,
                   error_message, ci, interrupted, completed, batch_error,
                   progress, stages, failed, logs, prompts, observed,
                   pending_at_cancel, cancel_ok>>

\* variant of WorkerFinish: the worker itself writes the created case into
\* the data provider
WorkerFinish_writes_store ==
    /\ pc \in {"drain", "cancel", "join"}
    /\ \E u \in Running :
         \E e \in {NoError, <<"error", u>>} :
            /\ fut' = [fut EXCEPT ![u] = "finished"]
            /\ res' = [res EXCEPT ![u] = e]
            /\ store' = IF kind = "add_case" /\ ~Truthy(e)
                        THEN update_case_data(store, {u}) ELSE store
    /\ UNCHANGED <<pc, exit_code, project_data, env_run_id, remote, run_id,
                   suite_ret, item_ret, updates, kind, units, yielded, responses,
                   error_message, ci, interrupted, completed, batch_error,
                   progress, stages, failed, calls, logs, prompts, sent,
                   observed, pending_at_cancel, cancel_ok>>
\* client.send_post returns in a worker: Transport's answer for the unit
WorkerFinish ==
    /\ pc \in {"drain", "cancel", "join"}
    /\ \E u \in Running :
         \E e \in {NoError, <<"error", u>>} :
            /\ fut' = [fut EXCEPT ![u] = "finished"]
            /\ res' = [res EXCEPT ![u] = e]
    /\ UNCHANGED <<pc, exit_code, project_data, store, env_run_id, remote, run_id,
                   suite_ret, item_ret, updates, kind, units, yielded, responses,
                   error_message, ci, interrupted, completed, batch_error,
                   progress, stages, failed, calls, logs, prompts, sent,
                   observed, pending_at_cancel, cancel_ok>>

\* variant of AfterError: the loop neither cancels nor breaks
AfterError_keeps_draining == "drain"
\* handle_futures 350-356: after recording the error of a failed unit the
\* loop cancels the futures and breaks
AfterError == "cancel"

\* handle_futures, one iteration of the as_completed loop (341-356)
HandleFuture ==
    /\ pc = "drain"
    /\ \E u \in units \ yielded :
         /\ Completed(u)
         /\ yielded' = yielded \cup {u}
         /\ observed' = Append(observed, u)
         /\ IF ~Truthy(res[u])
            THEN /\ responses' = Append(responses, u)
                 /\ progress' = progress + Weight(kind, u)
                 /\ UNCHANGED <<pc, ci, pending_at_cancel, error_message>>
            ELSE /\ error_message' = res[u]
                 /\ pending_at_cancel' = {v \in units : fut[v] = "pending"}
                 /\ ci' = 1
                 /\ pc' = AfterError
                 /\ UNCHANGED <<responses, progress>>
    /\ UNCHANGED <<exit_code, project_data, store, env_run_id, remote, run_id,
                   suite_ret, item_ret, updates, kind, units, fut, res, interrupted, completed,
                   batch_error, stages, failed, calls, logs, prompts, sent,
                   cancel_ok>>

\* variant of LoopEnd: the futures are cancelled after the loop as well
LoopEnd_cancels ==
    /\ pc = "drain"
    /\ units \ yielded = {}
    /\ IF units = {}
       THEN pc' = "join" /\ ci' = ci
       ELSE pc' = "cancel" /\ ci' = 1
    /\ UNCHANGED <<exit_code, project_data, store, env_run_id, remote, run_id,
                   suite_ret, item_ret, updates, stages, failed, calls, logs, prompts>>
    /\ UNCHANGED <<kind, units, fut, res, yielded, responses, error_message,
                   interrupted, completed, batch_error, progress, sent,
                   observed, pending_at_cancel, cancel_ok>>
\* handle_futures, the loop's else branch (357-358): every future was seen
LoopEnd ==
    /\ pc = "drain"
    /\ units \ yielded = {}
    /\ pc' = "join"
    /\ UNCHANGED <<exit_code, project_data, store, env_run_id, remote, run_id,
                   suite_ret, item_ret, updates, stages, failed, calls, logs, prompts>>
    /\ UNCHANGED batchVars

\* handle_futures, except KeyboardInterrupt (359-361): the interrupt
\* arrives while the loop waits in as_completed
Interrupt ==
    /\ pc = "drain"
    /\ interrupted' = TRUE
    /\ pending_at_cancel' = {v \in units : fut[v] = "pending"}
    /\ IF units = {}
       THEN pc' = "join" /\ ci' = ci
       ELSE pc' = "cancel" /\ ci' = 1
    /\ UNCHANGED <<exit_code, project_data, store, env_run_id, remote, run_id,
                   suite_ret, item_ret, updates, kind, units, fut, res, yielded, responses,
                   error_message, completed, batch_error, progress, stages,
                   failed, calls, logs, prompts, sent, observed, cancel_ok>>

\* __cancel_running_futures (372-377), one future.cancel() of the loop:
\* cancel() succeeds only on a future no worker has taken yet
CancelFuture ==
    /\ pc = "cancel"
    /\ LET order == SortedSeq(units)
           u == order[ci]
       IN /\ IF fut[u] = "pending"
             THEN /\ fut' = [fut EXCEPT ![u] = "cancelled"]
                  /\ cancel_ok' = cancel_ok \cup {u}
             ELSE UNCHANGED <<fut, cancel_ok>>
          /\ IF ci = Len(order)
             THEN pc' = "join" /\ ci' = ci
             ELSE pc' = pc /\ ci' = ci + 1
    /\ UNCHANGED <<exit_code, project_data, store, env_run_id, remote, run_id,
                   suite_ret, item_ret, updates, kind, units, res, yielded, responses,
                   error_message, interrupted, completed, batch_error,
                   progress, stages, failed, calls, logs, prompts, sent,
                   observed, pending_at_cancel>>

\* variant of ExecutorJoined: the executor waits for every future to
\* finish, the cancelled ones included
ExecutorJoined_waits_for_cancelled(fs) ==
    \A u \in DOMAIN fs : fs[u] = "finished"
\* variant of ExecutorJoined: the executor is left without waiting
ExecutorJoined_no_wait(fs) == TRUE
\* leaving "with ThreadPoolExecutor" (shutdown(wait=True)): every worker
\* has emptied the queue and returned
ExecutorJoined(fs) ==
    \A u \in DOMAIN fs : fs[u] \in {"finished", "cancelled_notified"}

\* variant of retrieve_results_after_cancelling: cancelled() is not tested
retrieve_results_all_futures(fs) == DOMAIN fs
\* retrieve_results_after_cancelling (364-370): every future that was not
\* cancelled.  The list is kept as the set of its units.
retrieve_results_after_cancelling(fs) ==
    {u \in DOMAIN fs : fs[u] \notin {"cancelled", "cancelled_notified"}}

\* variant of BatchResponses: the salvage pass collects only the futures
\* the completion loop had not recorded
BatchResponses_salvage_unrecorded(err, resp, fs) ==
    IF Truthy(err) THEN retrieve_results_after_cancelling(fs) \ Range(resp)
    ELSE Range(resp)
\* variant of BatchResponses: the salvage pass after an error is left out
BatchResponses_no_salvage(err, resp, fs) == Range(resp)
\* the responses a batch call ends up with (add_cases 258-264,
\* add_results 315-323)
BatchResponses(err, resp, fs) ==
    IF Truthy(err) THEN retrieve_results_after_cancelling(fs) ELSE Range(resp)


(***************************************************************************)
(* upload_results, lines 70-75, and __add_missing_test_cases up to the     *)
(* submission of the add_case futures.                                     *)
(***************************************************************************)
add_missing_test_cases(response, answer) ==
    /\ pc = "cases"
    /\   LET chk == check_missing_test_cases_ids(store, response)
             prompted == chk.missing # {}
         IN /\ calls' = Append(calls, "get_cases")
            /\ prompts' = prompts + (IF prompted THEN 1 ELSE 0)
            /\ stages' = Append(stages, "cases")
            /\ item_ret' = [item_ret EXCEPT !["cases"] =
                   [ran |-> TRUE,
                    check_error |-> response.error_message,
                    missing |-> /\ ~Truthy(response.error_message)
                                /\ \E i \in CaseIdx :
                                      store.cases[i] \notin response.ids,
                    prompts |-> IF prompted THEN 1 ELSE 0,
                    consent |-> IF ~prompted THEN "none"
                                ELSE IF answer THEN "yes" ELSE "no",
                    result_code |-> IF prompted /\ answer THEN 0
                                    ELSE IF prompted \/ Truthy(chk.error_message)
                                    THEN 0 - 1 ELSE 1,
                    added |-> {},
                    raised |-> FALSE]]
            /\ IF prompted /\ answer
               THEN /\ StartBatch("add_case", add_cases_data(store))
                    /\ pc' = "drain"
                    /\ UNCHANGED <<logs, failed, exit_code>>
               ELSE /\ UNCHANGED batchVars
                    /\ IF prompted
                       THEN /\ logs' = logs \cup {<<"no_user_agreement">>}
                            /\ failed' = failed \cup {"cases"}
                            /\ Exit1
                       ELSE IF Truthy(chk.error_message)
                       THEN /\ logs' = logs \cup {<<"error_checking_missing_item">>}
                            /\ failed' = failed \cup {"cases"}
                            /\ Exit1
                       ELSE /\ pc' = "run"
                            /\ UNCHANGED <<logs, failed, exit_code>>
    /\ UNCHANGED <<project_data, store, env_run_id, remote, run_id, suite_ret,
                   updates>>
\* the stage under any get_cases response and any reply to the prompt
ReconcileCases ==
    \E response \in CaseResponses, answer \in BOOLEAN :
        add_missing_test_cases(response, answer)

\* APIClientResult.response_text of a request: Transport returns a decoded
\* body or an error string, so a response with an error carries no body
HasBody(err) == ~Truthy(err)

\* add_cases from line 261 on, back through __prompt_user_and_add_items
\* (283-286) and upload_results (74-75).  After an error the responses kept
\* include the failed one (retrieve_results_after_cancelling), whose
\* response_text has no "id": the list comprehension raises and update_data
\* is not reached.  Otherwise update_data receives the created cases.
ReturnAddCases ==
    /\ pc = "join"
    /\ kind = "add_case"
    /\ ~interrupted
    /\ ExecutorJoined(fut)
    /\ LET final == BatchResponses(error_message, responses, fut)
           \* 264-272: response_text["id"] of every response kept
           raises == \E u \in final : ~HasBody(res[u])
           result_code == IF Truthy(error_message) THEN 0 - 1 ELSE 1
       IN IF raises
          THEN /\ pc' = "raised"
               /\ item_ret' = [item_ret EXCEPT !["cases"].raised = TRUE]
               /\ UNCHANGED <<completed, batch_error, store, updates, logs,
                              failed, exit_code>>
          ELSE /\ completed' = final
               /\ batch_error' = error_message
               /\ store' = update_case_data(store, final)
               /\ updates' = IF final # {} THEN updates \cup {"case_data"}
                              ELSE updates
               /\ item_ret' = [item_ret EXCEPT
                                 !["cases"].result_code = result_code,
                                 !["cases"].added = final]
               /\ IF Truthy(error_message)
                  THEN /\ logs' = logs \cup {error_message}
                       /\ failed' = failed \cup {"cases"}
                       /\ Exit1
                  ELSE /\ pc' = "run"
                       /\ UNCHANGED <<logs, failed, exit_code>>
    /\ UNCHANGED <<project_data, env_run_id, remote, run_id, suite_ret, kind, units,
                   fut, res, yielded, responses, error_message, ci,
                   interrupted, progress, stages, calls, prompts, sent,
                   observed, pending_at_cancel, cancel_ok>>

(***************************************************************************)
(* upload_results, lines 77-90: obtain the run, then add_results up to the *)
(* submission of the add_results_for_cases futures.  The data provider     *)
(* cuts the results into n chunks.                                         *)
(***************************************************************************)
CreatedRunId == 5

\* variant of UseGivenRun: a run is created whatever the environment holds
UseGivenRun_never(given) == FALSE
\* upload_results 77: "if not self.environment.run_id"
UseGivenRun(given) == given # 0

\* mapping: the response_text of a failed add_run is a mapping, so that
\* add_run's response_text.get("id") (288) returns; otherwise it raises
ObtainRun ==
    /\ pc = "run"
    /\ \E add_run_error \in {NoError, TransportError}, n \in 0 .. MaxChunks,
          mapping \in BOOLEAN :
         IF ~UseGivenRun(env_run_id) /\ Truthy(add_run_error)
         THEN /\ calls' = Append(calls, "add_run")
              /\ stages' = Append(stages, "run")
              /\ failed' = failed \cup {"run"}
              /\ IF mapping
                 THEN /\ logs' = logs \cup {add_run_error}
                      /\ Exit1
                 ELSE /\ pc' = "raised"
                      /\ UNCHANGED <<logs, exit_code>>
              /\ UNCHANGED run_id
              /\ UNCHANGED batchVars
         ELSE /\ calls' = IF ~UseGivenRun(env_run_id)
                          THEN Append(calls, "add_run")
                          ELSE calls
              /\ run_id' = IF ~UseGivenRun(env_run_id) THEN CreatedRunId
                           ELSE env_run_id
              /\ stages' = stages \o <<"run", "results">>
              /\ StartBatch("add_results", 1 .. n)
              /\ pc' = "drain"
              /\ UNCHANGED <<logs, failed, exit_code>>
    /\ UNCHANGED <<project_data, store, env_run_id, remote, suite_ret, item_ret,
                   updates, prompts>>

\* add_results from line 320 on, back in upload_results (91-95)
ReturnAddResults ==
    /\ pc = "join"
    /\ kind = "add_results"
    /\ ~interrupted
    /\ ExecutorJoined(fut)
    /\ completed' = BatchResponses(error_message, responses, fut)
    /\ batch_error' = error_message
    /\ IF Truthy(error_message)
       THEN /\ logs' = logs \cup {error_message}
            /\ failed' = failed \cup {"results"}
            /\ Exit1
       ELSE /\ pc' = "close"
            /\ UNCHANGED <<logs, failed, exit_code>>
    /\ UNCHANGED <<project_data, store, env_run_id, remote, run_id, suite_ret, item_ret, updates, kind,
                   units, fut, res, yielded, responses, error_message, ci,
                   interrupted, progress, stages, calls, prompts, sent,
                   observed, pending_at_cancel, cancel_ok>>

\* handle_futures re-raised KeyboardInterrupt: the executor is left, then
\* the exception leaves add_cases / add_results and upload_results
ReturnInterrupted ==
    /\ pc = "join"
    /\ interrupted
    /\ ExecutorJoined(fut)
    /\ pc' = "interrupted"
    /\ UNCHANGED <<exit_code, project_data, store, env_run_id, remote, run_id,
                   suite_ret, item_ret, updates, stages, failed, calls, logs, prompts>>
    /\ UNCHANGED batchVars

(***************************************************************************)
(* upload_results, lines 96-101: close the run.                            *)
(***************************************************************************)
CloseRun ==
    /\ pc = "close"
    /\ \E close_error \in {NoError, TransportError} :
         /\ calls' = Append(calls, "close_run")
         /\ stages' = Append(stages, "close")
         /\ IF Truthy(close_error)
            THEN /\ logs' = logs \cup {close_error}
                 /\ failed' = failed \cup {"close"}
                 /\ Exit1
            ELSE /\ pc' = "done"
                 /\ exit_code' = 0
                 /\ UNCHANGED <<logs, failed>>
    /\ UNCHANGED <<project_data, store, env_run_id, remote, run_id, suite_ret, item_ret, updates, prompts>>
    /\ UNCHANGED batchVars

Next ==
    \/ GetProject
    \/ ResolveSuite
    \/ ReconcileSections
    \/ ReconcileCases
    \/ WorkerTake
    \/ WorkerFinish
    \/ HandleFuture
    \/ LoopEnd
    \/ Interrupt
    \/ CancelFuture
    \/ ReturnAddCases
    \/ ObtainRun
    \/ ReturnAddResults
    \/ ReturnInterrupted
    \/ CloseRun

Spec == Init /\ [][Next]_vars

(***************************************************************************)
(* A second invocation.  The uploader is run from the sections stage on a  *)
(* resolved project and suite; when both of its reconciliation stages      *)
(* found every local id on the remote side, it is run once more on the     *)
(* same data provider.  stages holds the stages of both invocations.       *)
(***************************************************************************)
\* stage s found the remote side holding every local id
Synced(s) ==
    /\ item_ret[s].ran
    /\ ~Truthy(item_ret[s].check_error)
    /\ ~item_ret[s].missing

InitRerun ==
    /\ pc = "sections"
    /\ exit_code = 0 - 1
    /\ project_data = [project_id |-> 1, suite_mode |-> single_suite,
                       error_message |-> NoError]
    /\ store \in {st \in Stores : st.suite_id # 0}
    /\ env_run_id \in {0, 7}
    /\ remote = NoRemote
    /\ run_id = 0
    /\ suite_ret = [suite_id |-> store.suite_id, result_code |-> 1,
                    raised |-> FALSE, valid |-> TRUE, pinned |-> store.suite_id,
                    error |-> NoError, prompts |-> 0, consent |-> "none",
                    listed |-> 0]
    /\ item_ret = [s \in ItemStages |-> NoItemRet]
    /\ updates = {}
    /\ NoBatch
    /\ completed = {}
    /\ batch_error = NoError
    /\ stages = << >>
    /\ failed = {}
    /\ calls = << >>
    /\ logs = {}
    /\ prompts = 0

\* upload_results is entered again (64-75 run a second time)
Rerun ==
    /\ pc = "run"
    /\ Len(stages) = 2
    /\ \A s \in ItemStages : Synced(s)
    /\ pc' = "sections"
    /\ item_ret' = [s \in ItemStages |-> NoItemRet]
    /\ UNCHANGED <<exit_code, project_data, store, env_run_id, remote, run_id,
                   suite_ret, updates, stages, failed, calls, logs, prompts>>
    /\ UNCHANGED batchVars

NextRerun ==
    \/ ReconcileSections
    \/ ReconcileCases
    \/ Rerun

SpecRerun == InitRerun /\ [][NextRerun]_vars

(***************************************************************************)
(* The two reconciliation stages against a remote side that only this      *)
(* upload changes: get_sections and get_cases list the ids the remote      *)
(* side holds (or fail), and the add_case batch runs to its return.        *)
(***************************************************************************)
\* the responses a listing request can get when the remote side holds ids
RemoteListing(ids) ==
    {[error_message |-> TransportError, ids |-> {}],
     [error_message |-> NoError, ids |-> ids]}
\* the parsed tree: the section that test case c belongs to
SectionOf(c) == ((c - 1) % MaxSections) + 1
\* add_cases 252: the section id in the path of the add_case request of c
TargetSection(st, c) == st.sections[SectionOf(c)]
\* the section ids on the remote side: those it held plus those created
RemoteSectionIds ==
    remote.sections \cup {CreatedId(i) : i \in item_ret["sections"].added}
\* the case ids on the remote side: those it held plus those of the
\* add_case requests that succeeded
RemoteCaseIds ==
    remote.cases \cup
    {CreatedId(u) : u \in {v \in units : /\ kind = "add_case"
                                         /\ fut[v] = "finished"
                                         /\ ~Truthy(res[v])}}

InitRemote ==
    /\ pc = "sections"
    /\ exit_code = 0 - 1
    /\ project_data = [project_id |-> 1, suite_mode |-> single_suite,
                       error_message |-> NoError]
    /\ store \in {st \in Stores : st.suite_id # 0}
    /\ env_run_id \in {0, 7}
    /\ remote \in [sections : SUBSET SecIdx, cases : SUBSET CaseIdx]
    /\ run_id = 0
    /\ suite_ret = [suite_id |-> store.suite_id, result_code |-> 1,
                    raised |-> FALSE, valid |-> TRUE, pinned |-> store.suite_id,
                    error |-> NoError, prompts |-> 0, consent |-> "none",
                    listed |-> 0]
    /\ item_ret = [s \in ItemStages |-> NoItemRet]
    /\ updates = {}
    /\ NoBatch
    /\ completed = {}
    /\ batch_error = NoError
    /\ stages = << >>
    /\ failed = {}
    /\ calls = << >>
    /\ logs = {}
    /\ prompts = 0

ReconcileSectionsRemote ==
    \E response \in RemoteListing(remote.sections), answer \in BOOLEAN,
       f \in 1 .. MaxSections + 1 :
        add_missing_sections(response, answer, f)
ReconcileCasesRemote ==
    \E response \in RemoteListing(remote.cases), answer \in BOOLEAN :
        add_missing_test_cases(response, answer)

NextRemote ==
    \/ ReconcileSectionsRemote
    \/ ReconcileCasesRemote
    \/ WorkerTake
    \/ WorkerFinish
    \/ HandleFuture
    \/ LoopEnd
    \/ CancelFuture
    \/ ReturnAddCases

SpecRemote == InitRemote /\ [][NextRemote]_vars

(***************************************************************************)
(* The stages from the sections stage on, with the scheduling the program  *)
(* runs under: the workers are threads of the pool, each request handed to *)
(* Transport returns, and the controlling thread keeps running.  The       *)
(* interrupt may arrive or not.                                            *)
(***************************************************************************)
NextLive ==
    \/ ReconcileSections
    \/ ReconcileCases
    \/ WorkerTake
    \/ WorkerFinish
    \/ HandleFuture
    \/ LoopEnd
    \/ Interrupt
    \/ CancelFuture
    \/ ReturnAddCases
    \/ ObtainRun
    \/ ReturnAddResults
    \/ ReturnInterrupted
    \/ CloseRun
FairLive ==
    /\ WF_vars(WorkerTake)
    /\ WF_vars(WorkerFinish)
    /\ WF_vars(HandleFuture)
    /\ WF_vars(LoopEnd)
    /\ WF_vars(CancelFuture)
    /\ WF_vars(ReturnAddCases)
    /\ WF_vars(ReturnAddResults)
    /\ WF_vars(ReturnInterrupted)

SpecLive == InitRerun /\ [][NextLive]_vars /\ FairLive


(***************************************************************************)
(* add_suites / add_sections step by step: the loop over the bodies, one   *)
(* request at a time.  kind is the endpoint, units the positions of the    *)
(* bodies, ci the number of bodies the loop is done with, observed the     *)
(* bodies posted in order, responses the loop's list, completed the        *)
(* returned resources.                                                     *)
(***************************************************************************)
SequentialKinds == {"add_suite", "add_section"}
\* the update_data keyword of each creator
UpdateKeyword(k) == IF k = "add_suite" THEN "suite_data" ELSE "section_data"

InitSeq ==
    /\ pc = "loop"
    /\ exit_code = 0 - 1
    /\ project_data = [project_id |-> 1, suite_mode |-> multiple_suites,
                       error_message |-> NoError]
    /\ store = [suite_id |-> 1, sections |-> [i \in SecIdx |-> 0],
                cases |-> [i \in CaseIdx |-> 0]]
    /\ env_run_id = 0
    /\ remote = NoRemote
    /\ run_id = 0
    /\ suite_ret = [suite_id |-> 0, result_code |-> 0, raised |-> FALSE,
                    valid |-> FALSE, pinned |-> 0, error |-> NoError,
                    prompts |-> 0, consent |-> "none", listed |-> 0]
    /\ item_ret = [s \in ItemStages |-> NoItemRet]
    /\ updates = {}
    /\ kind \in SequentialKinds
    /\ units \in {1 .. n : n \in 0 .. MaxBodies}
    /\ fut = << >>
    /\ res = [u \in units |-> NoError]
    /\ yielded = {}
    /\ responses = << >>
    /\ error_message = NoError
    /\ ci = 0
    /\ interrupted = FALSE
    /\ progress = 0
    /\ sent = {}
    /\ observed = << >>
    /\ pending_at_cancel = {}
    /\ cancel_ok = {}
    /\ completed = {}
    /\ batch_error = NoError
    /\ stages = << >>
    /\ failed = {}
    /\ calls = << >>
    /\ logs = {}
    /\ prompts = 0

\* "for body in bodies: response = self.client.send_post(...)": the request
\* for the next body is handed to Transport
SendBody ==
    /\ pc = "loop"
    /\ ci < Cardinality(units)
    /\ calls' = Append(calls, kind)
    /\ observed' = Append(observed, ci + 1)
    /\ sent' = sent \cup {ci + 1}
    /\ pc' = "wait"
    /\ UNCHANGED <<exit_code, project_data, store, env_run_id, remote, run_id,
                   suite_ret, item_ret, updates, kind, units, fut, res, yielded,
                   responses, error_message, ci, interrupted, completed,
                   batch_error, progress, stages, failed, logs, prompts,
                   pending_at_cancel, cancel_ok>>
\* variant of ReceiveBody: the loop goes on after a failed request
ReceiveBody_no_break ==
    /\ pc = "wait"
    /\ \E e \in {NoError, <<"error", ci + 1>>} :
         /\ res' = [res EXCEPT ![ci + 1] = e]
         /\ ci' = ci + 1
         /\ pc' = "loop"
         /\ IF ~Truthy(e)
            THEN /\ responses' = Append(responses, ci + 1)
                 /\ UNCHANGED error_message
            ELSE /\ error_message' = e
                 /\ UNCHANGED responses
    /\ UNCHANGED <<exit_code, project_data, store, env_run_id, remote, run_id,
                   suite_ret, item_ret, updates, kind, units, fut, yielded,
                   interrupted, completed, batch_error, progress, stages,
                   failed, calls, logs, prompts, sent, observed,
                   pending_at_cancel, cancel_ok>>
\* send_post returned: a response without error is appended, an error is
\* kept and ends the loop (add_suites 125-129, add_sections 185-189)
ReceiveBody ==
    /\ pc = "wait"
    /\ \E e \in {NoError, <<"error", ci + 1>>} :
         /\ res' = [res EXCEPT ![ci + 1] = e]
         /\ IF ~Truthy(e)
            THEN /\ responses' = Append(responses, ci + 1)
                 /\ ci' = ci + 1
                 /\ pc' = "loop"
                 /\ UNCHANGED error_message
            ELSE /\ error_message' = e
                 /\ pc' = "return"
                 /\ UNCHANGED <<responses, ci>>
    /\ UNCHANGED <<exit_code, project_data, store, env_run_id, remote, run_id,
                   suite_ret, item_ret, updates, kind, units, fut, yielded,
                   interrupted, completed, batch_error, progress, stages,
                   failed, calls, logs, prompts, sent, observed,
                   pending_at_cancel, cancel_ok>>
\* the loop ran out of bodies
BodiesDone ==
    /\ pc = "loop"
    /\ ci = Cardinality(units)
    /\ pc' = "return"
    /\ UNCHANGED <<exit_code, project_data, store, env_run_id, remote, run_id,
                   suite_ret, item_ret, updates, stages, failed, calls, logs,
                   prompts>>
    /\ UNCHANGED batchVars
\* returned_resources, update_data unless the list is empty, and the return
\* (add_suites 131-142, add_sections 190-202)
ReturnSequential ==
    /\ pc = "return"
    /\ completed' = Range(responses)
    /\ batch_error' = error_message
    /\ updates' = IF Len(responses) > 0
                  THEN updates \cup {UpdateKeyword(kind)} ELSE updates
    /\ pc' = "returned"
    /\ UNCHANGED <<exit_code, project_data, store, env_run_id, remote, run_id,
                   suite_ret, item_ret, kind, units, fut, res, yielded,
                   responses, error_message, ci, interrupted, progress,
                   stages, failed, calls, logs, prompts, sent, observed,
                   pending_at_cancel, cancel_ok>>

NextSeq ==
    \/ SendBody
    \/ ReceiveBody
    \/ BodiesDone
    \/ ReturnSequential

SpecSeq == InitSeq /\ [][NextSeq]_vars


(***************************************************************************)
(* Properties.                                                             *)
(***************************************************************************)
StageOrder == <<"project", "suite", "sections", "cases", "run", "results", "close">>
StageOfCall(c) ==
    CASE c = "get_projects" -> 1
      [] c \in {"get_suites", "add_suite"} -> 2
      [] c \in {"get_sections", "add_section"} -> 3
      [] c \in {"get_cases", "add_case"} -> 4
      [] c = "add_run" -> 5
      [] c = "add_results_for_cases" -> 6
      [] c = "close_run" -> 7
\* the batch call (add_cases or add_results) has returned to upload_results
BatchReturned == kind # "none" /\ pc \in {"run", "close", "exit", "done"}
\* __get_suite_id has returned or raised
SuiteResolved == Len(stages) >= 2

\* C1: the stages run in the fixed order project, suite, sections, cases,
\* run, results, close; a stage starts only if every earlier stage succeeded,
\* and after a failed stage no remote call of a later stage is issued and no
\* stage runs twice.
C1_FixedPipeline ==
    /\ Len(stages) <= Len(StageOrder)
    /\ \A i \in DOMAIN stages : stages[i] = StageOrder[i]
    /\ \A i \in DOMAIN stages : i < Len(stages) => stages[i] \notin failed
    /\ \A i \in DOMAIN StageOrder :
         StageOrder[i] \in failed =>
            \A j \in DOMAIN calls : StageOfCall(calls[j]) <= i

\* C2: when more than one remote project carries the requested name,
\* upload_results ends with the failure outcome and no call other than
\* get_projects is made.
C2_AmbiguousProjectFatal ==
    project_data.project_id = multiple_project_same_name =>
        /\ pc = "exit"
        /\ exit_code = 1
        /\ calls = <<"get_projects">>

\* C3: the completed set a batch returns is a subset of its units and holds
\* no response that carried an error (in particular not the first failed
\* unit).
C3_CompletedHasNoError ==
    /\ completed \subseteq units
    /\ \A u \in completed : ~Truthy(res[u])

C5_PendingAtCancelNeverSent ==
    Truthy(error_message) =>
        \A u \in pending_at_cancel : u \notin sent /\ u \notin completed
\* C5 amended: a unit that was not started when its own cancel() call was
\* made (the call succeeded) is never sent to Transport and never in the
\* completed set.
C5_CancelledNeverSent ==
    \A u \in cancel_ok : u \notin sent /\ u \notin completed
\* a failed batch returned after its cancel loop had cancelled a unit that
\* was still queued
C5_Witness ==
    /\ BatchReturned
    /\ Truthy(batch_error)
    /\ cancel_ok # {}
    /\ cancel_ok \subseteq pending_at_cancel

\* C6: the error of a batch is the error of the first failed unit the
\* completion loop saw; a unit failing later never replaces it; the error is
\* non-empty exactly if the loop saw a failure.
C6_FirstErrorWins ==
    LET bad == {i \in DOMAIN observed : Truthy(res[observed[i]])}
        first == CHOOSE i \in bad : \A j \in bad : i <= j
    IN /\ (bad = {}) <=> ~Truthy(error_message)
       /\ bad # {} => error_message = res[observed[first]]
       /\ BatchReturned => batch_error = error_message
\* a batch returned the first error although another unit failed as well
C6_Witness ==
    /\ BatchReturned
    /\ Truthy(batch_error)
    /\ \E u \in units : Truthy(res[u]) /\ res[u] # batch_error

\* C7: the data provider is written only while no unit of a batch is
\* queued or in flight, and a worker step (a future changes state while the
\* controlling thread stays where it is) writes neither the data provider
\* nor the list of responses.
C7_StoreWrittenBetweenBatches ==
    [][/\ store' # store =>
            \A u \in units : fut[u] \in {"finished", "cancelled_notified"}
       /\ (fut' # fut /\ pc' = pc /\ ci' = ci) =>
            /\ store' = store
            /\ responses' = responses
            /\ completed' = completed]_vars
\* add_cases merged the created cases once its batch was over
C7_Witness ==
    /\ BatchReturned
    /\ kind = "add_case"
    /\ completed # {}
    /\ \E i \in CaseIdx : store.cases[i] = CreatedId(i)

\* C8: with a suite id given beforehand and a successful get_suites, suite
\* resolution succeeds if the id is listed and otherwise fails with -1, logs
\* the missing-suite diagnostic and ends the pipeline.
C8_MissingSuiteFails ==
    (SuiteResolved /\ suite_ret.pinned # 0 /\ ~Truthy(suite_ret.error)) =>
        IF suite_ret.valid
        THEN suite_ret.result_code = 1 /\ suite_ret.suite_id = suite_ret.pinned
        ELSE /\ suite_ret.result_code = 0 - 1
             /\ <<"missing_suite">> \in logs
             /\ pc = "exit"
             /\ stages = <<"project", "suite">>

\* C9: with a suite id given beforehand and a get_suites that fails in
\* Transport, suite resolution fails and section reconciliation never
\* starts.
C9_SuiteTransportErrorFails ==
    (SuiteResolved /\ suite_ret.pinned # 0 /\ Truthy(suite_ret.error)) =>
        /\ suite_ret.result_code = 0 - 1
        /\ pc = "exit"
        /\ stages = <<"project", "suite">>

\* C10: __get_suite_id returns either a valid remote suite id with success
\* (1) or -1 with failure (-1), whatever the mode, the given suite id, the
\* remote answers and the user's reply.
C10_SuiteIdOrMinusOne ==
    SuiteResolved =>
        /\ ~suite_ret.raised
        /\ \/ suite_ret.valid /\ suite_ret.result_code = 1
           \/ suite_ret.suite_id = 0 - 1 /\ suite_ret.result_code = 0 - 1

\* the suite stage ran without a suite id given beforehand, in mode m
Unpinned(m) ==
    SuiteResolved /\ suite_ret.pinned = 0 /\ project_data.suite_mode = m
RecognisedModes == {single_suite, single_suite_baselines, multiple_suites}

\* C11: one run of __get_suite_id prompts the user at most once, and it
\* prompts only when the project is in multiple-suites mode and no suite id
\* was given beforehand.
C11_PromptOnlyForMultipleSuites ==
    SuiteResolved =>
        /\ suite_ret.prompts <= 1
        /\ suite_ret.prompts = 1 =>
              /\ suite_ret.pinned = 0
              /\ project_data.suite_mode = multiple_suites
        /\ stages = <<"project", "suite">> => prompts = suite_ret.prompts
C11_Witness ==
    /\ Unpinned(multiple_suites)
    /\ suite_ret.prompts = 1
    /\ stages = <<"project", "suite">>

\* C12: in single-suite mode without a given suite id, a get_suites that
\* succeeds with an empty list makes suite resolution return -1, the pipeline
\* exit with code 1 and no run be created.
C12_SingleSuiteEmptyListFails ==
    (/\ Unpinned(single_suite)
     /\ ~Truthy(suite_ret.error)
     /\ suite_ret.listed = 0) =>
        /\ ~suite_ret.raised
        /\ suite_ret.result_code = 0 - 1
        /\ suite_ret.suite_id = 0 - 1
        /\ pc = "exit"
        /\ exit_code = 1
        /\ \A j \in DOMAIN calls : calls[j] # "add_run"

\* C13: in single-suite-with-baselines mode without a given suite id, suite
\* resolution succeeds exactly when get_suites succeeded with one suite id,
\* which it returns; no suite, several suites or a Transport error each give
\* -1 with a logged diagnostic, and the user is never prompted.
C13_BaselinesExactlyOne ==
    Unpinned(single_suite_baselines) =>
        /\ suite_ret.prompts = 0
        /\ IF ~Truthy(suite_ret.error) /\ suite_ret.listed = 1
           THEN /\ suite_ret.result_code = 1
                /\ suite_ret.valid
                /\ ~suite_ret.raised
           ELSE /\ ~suite_ret.raised
                /\ suite_ret.result_code = 0 - 1
                /\ suite_ret.suite_id = 0 - 1
                /\ logs # {}
                /\ pc = "exit"

\* C14: with a suite mode that is none of the three recognised ones and no
\* given suite id, __get_suite_id returns -1, logs the unknown-suite-mode
\* diagnostic, sends no request, does not prompt and leaves the data
\* provider as it was.
C14_UnknownModeFails ==
    (/\ SuiteResolved
     /\ suite_ret.pinned = 0
     /\ project_data.suite_mode \notin RecognisedModes) =>
        /\ suite_ret.result_code = 0 - 1
        /\ suite_ret.suite_id = 0 - 1
        /\ ~suite_ret.raised
        /\ <<"unknown_suite_mode">> \in logs
        /\ calls = <<"get_projects">>
        /\ prompts = 0
        /\ store.suite_id = 0
        /\ pc = "exit"
C14_Witness ==
    /\ SuiteResolved
    /\ suite_ret.pinned = 0
    /\ project_data.suite_mode = 4
    /\ <<"unknown_suite_mode">> \in logs

\* C15: in multiple-suites mode without a given suite id, when the user
\* agrees and add_suite succeeds, __get_suite_id has sent add_suite once,
\* returns the id of the first created suite with result 1, and the data
\* provider holds that id.
C15_CreatedSuiteReturned ==
    (/\ Unpinned(multiple_suites)
     /\ suite_ret.consent = "yes"
     /\ ~Truthy(suite_ret.error)) =>
        /\ Cardinality({j \in DOMAIN calls : calls[j] = "add_suite"}) = 1
        /\ calls[2] = "add_suite"
        /\ suite_ret.result_code = 1
        /\ suite_ret.valid
        /\ suite_ret.suite_id \in SuiteIds
        /\ store.suite_id = suite_ret.suite_id
        /\ "suite" \notin failed
C15_Witness ==
    /\ Unpinned(multiple_suites)
    /\ suite_ret.consent = "yes"
    /\ ~Truthy(suite_ret.error)
    /\ suite_ret.suite_id = store.suite_id
    /\ pc = "sections"

\* C16: in multiple-suites mode without a given suite id, a refusal sends no
\* add_suite and fails suite resolution; an agreement followed by a failed
\* add_suite fails it too; either way a diagnostic is logged and the pipeline
\* ends with exit code 1 before the sections stage.
C16_DeclineOrCreateFailureFails ==
    (/\ Unpinned(multiple_suites)
     /\ \/ suite_ret.consent = "no"
        \/ suite_ret.consent = "yes" /\ Truthy(suite_ret.error)) =>
        /\ suite_ret.result_code = 0 - 1
        /\ suite_ret.suite_id = 0 - 1
        /\ IF suite_ret.consent = "no"
           THEN /\ calls = <<"get_projects">>
                /\ <<"no_user_agreement">> \in logs
           ELSE suite_ret.error \in logs
        /\ "suite" \in failed
        /\ pc = "exit"
        /\ exit_code = 1
        /\ stages = <<"project", "suite">>
C16_Witness_Declined ==
    /\ Unpinned(multiple_suites)
    /\ suite_ret.consent = "no"
    /\ pc = "exit"
C16_Witness ==
    /\ Unpinned(multiple_suites)
    /\ suite_ret.consent = "yes"
    /\ Truthy(suite_ret.error)
    /\ pc = "exit"

\* number of requests of one kind sent so far
CallCount(c) == Cardinality({j \in DOMAIN calls : calls[j] = c})
\* the request that creates an item of stage s
CreateCall(s) == IF s = "sections" THEN "add_section" ELSE "add_case"
CheckCall(s) == IF s = "sections" THEN "get_sections" ELSE "get_cases"

\* C17: when the check of missing sections (cases) succeeds and every local
\* id exists remotely, the stage returns success with no created item, sends
\* no create request and does not prompt.
C17_EmptyDiffSucceeds ==
    \A s \in ItemStages :
        (/\ item_ret[s].ran
         /\ ~Truthy(item_ret[s].check_error)
         /\ ~item_ret[s].missing) =>
            /\ item_ret[s].result_code = 1
            /\ item_ret[s].added = {}
            /\ item_ret[s].prompts = 0
            /\ item_ret[s].consent = "none"
            /\ CallCount(CreateCall(s)) = 0
            /\ s \notin failed
C17_Witness ==
    /\ \A s \in ItemStages :
         /\ item_ret[s].ran
         /\ ~Truthy(item_ret[s].check_error)
         /\ ~item_ret[s].missing
    /\ prompts = 0
    /\ pc = "run"

\* C18: when the check of missing sections (cases) fails in Transport, the
\* stage returns failure and logs it, never prompts and never sends a create
\* request, whatever ids the local tree holds; the pipeline ends.
C18_CheckErrorFails ==
    \A s \in ItemStages :
        (item_ret[s].ran /\ Truthy(item_ret[s].check_error)) =>
            /\ item_ret[s].result_code = 0 - 1
            /\ item_ret[s].added = {}
            /\ item_ret[s].prompts = 0
            /\ item_ret[s].consent = "none"
            /\ CallCount(CreateCall(s)) = 0
            /\ <<"error_checking_missing_item">> \in logs
            /\ s \in failed
            /\ pc = "exit"
            /\ exit_code = 1
\* get_cases failed while a local case had no id yet
C18_Witness ==
    /\ item_ret["cases"].ran
    /\ Truthy(item_ret["cases"].check_error)
    /\ \E i \in CaseIdx : store.cases[i] = 0
    /\ pc = "exit"

\* C19: when the check succeeds and some local section (case) id is missing
\* remotely, the stage prompts exactly once; if the user refuses, no create
\* request is sent, the data provider is unchanged, the stage returns
\* failure with no created item and the pipeline ends with exit code 1.
C19_PromptOnceDeclineFails ==
    [][\A s \in ItemStages :
          (pc = s /\ item_ret'[s].missing) =>
             /\ prompts' = prompts + 1
             /\ item_ret'[s].prompts = 1
             /\ item_ret'[s].consent \in {"yes", "no"}
             /\ item_ret'[s].consent = "no" =>
                   /\ calls' = Append(calls, CheckCall(s))
                   /\ store' = store
                   /\ kind' = kind
                   /\ item_ret'[s].result_code = 0 - 1
                   /\ item_ret'[s].added = {}
                   /\ <<"no_user_agreement">> \in logs'
                   /\ s \in failed'
                   /\ pc' = "exit"
                   /\ exit_code' = 1]_vars
C19_Witness ==
    /\ item_ret["cases"].ran
    /\ item_ret["cases"].missing
    /\ item_ret["cases"].consent = "no"
    /\ item_ret["cases"].prompts = 1
    /\ pc = "exit"

\* C20: when the creation of missing sections or cases fails part-way, each
\* item created before the failure is in the data provider and is returned
\* to the caller together with the error.
C20_PartialCreationMerged ==
    /\ (/\ item_ret["sections"].consent = "yes"
        /\ item_ret["sections"].result_code = 0 - 1) =>
          LET made == {i \in SecIdx : store.sections[i] = CreatedId(i)}
          IN /\ Cardinality(made) = CallCount("add_section") - 1
             /\ item_ret["sections"].added = made
             /\ TransportError \in logs
    /\ (/\ kind = "add_case"
        /\ Truthy(error_message)
        /\ pc \notin {"drain", "cancel", "join"}) =>
          \A u \in units :
             (fut[u] = "finished" /\ ~Truthy(res[u])) =>
                /\ store.cases[u] = CreatedId(u)
                /\ u \in item_ret["cases"].added
                /\ item_ret["cases"].result_code = 0 - 1
                /\ batch_error = error_message

\* C21: when the sections and cases stages are run twice and the remote side
\* holds every local id both times, each run, the second included, finds
\* nothing missing, sends no create request and does not prompt: one check
\* request per stage and run, and every local id is still the given one.
C21_SecondRunCreatesNothing ==
    \A s \in ItemStages :
        Synced(s) =>
            /\ item_ret[s].result_code = 1
            /\ item_ret[s].added = {}
            /\ item_ret[s].prompts = 0
            /\ CallCount(CreateCall(s)) = 0
            /\ CallCount(CheckCall(s)) = IF Len(stages) > 2 THEN 2 ELSE 1
            /\ s \notin failed
            /\ IF s = "sections"
               THEN \A i \in SecIdx : store.sections[i] \in SecIdx
               ELSE \A i \in CaseIdx : store.cases[i] \in CaseIdx
C21_Witness ==
    /\ Len(stages) = 4
    /\ \A s \in ItemStages : Synced(s)
    /\ calls = <<"get_sections", "get_cases", "get_sections", "get_cases">>
    /\ prompts = 0
    /\ pc = "run"

\* add_results has returned an error together with at least one response
\* without error
ResultsFailedPartly ==
    /\ BatchReturned
    /\ kind = "add_results"
    /\ Truthy(batch_error)
    /\ \E u \in completed : ~Truthy(res[u])

\* C22: after a failed results chunk the error reported is that
\* chunk's message, the responses without error have been written to the
\* data provider, and the pipeline ends with exit code 1 without close_run.
C22_ResultsFailureMerged ==
    ResultsFailedPartly =>
        /\ \E u \in units : res[u] = batch_error
        /\ batch_error \in logs
        /\ "results_data" \in updates
        /\ pc = "exit"
        /\ exit_code = 1
        /\ CallCount("close_run") = 0

\* C23: a KeyboardInterrupt that arrives while a batch is drained cancels the
\* units not yet started, and when the batch call is left every unit that
\* finished without error has been collected (and, for cases, written to the
\* data provider); the interrupt then leaves the batch call and
\* upload_results: the pipeline neither goes on nor calls exit().
C23_InterruptSalvages ==
    interrupted =>
        /\ pc \in {"cancel", "join", "interrupted"}
        /\ exit_code = 0 - 1
        /\ \A u \in cancel_ok : u \notin sent
        /\ pc = "interrupted" =>
             \A u \in units :
                (fut[u] = "finished" /\ ~Truthy(res[u])) =>
                    /\ u \in completed
                    /\ kind = "add_case" => store.cases[u] = CreatedId(u)

\* the run id the pipeline has to work on
ExpectedRunId == IF env_run_id # 0 THEN env_run_id ELSE CreatedRunId

\* C24: with a run id supplied no add_run is sent; without one add_run is
\* sent exactly once before results are submitted; results and close_run use
\* the supplied id, or else the id add_run returned; a failed add_run ends
\* the pipeline and no results request is sent.
C24_RunObtainedOnce ==
    /\ env_run_id # 0 => CallCount("add_run") = 0
    /\ CallCount("add_run") <= 1
    /\ "results" \in Range(stages) =>
          /\ run_id = ExpectedRunId
          /\ env_run_id = 0 => CallCount("add_run") = 1
    /\ CallCount("add_results_for_cases") > 0 => "results" \in Range(stages)
    /\ CallCount("close_run") > 0 =>
          /\ "results" \in Range(stages)
          /\ run_id = ExpectedRunId
    /\ "run" \in failed =>
          /\ env_run_id = 0
          /\ pc \in {"exit", "raised"}
          /\ stages[Len(stages)] = "run"
          /\ CallCount("add_results_for_cases") = 0
          /\ CallCount("close_run") = 0
\* both ways of obtaining the run are followed to the end of the pipeline
C24_Witness ==
    /\ pc = "done"
    /\ env_run_id = 0
    /\ run_id = CreatedRunId
    /\ CallCount("add_run") = 1
    /\ CallCount("add_results_for_cases") > 0
C24_Witness_Given ==
    /\ pc = "done"
    /\ env_run_id # 0
    /\ run_id = env_run_id
    /\ CallCount("add_results_for_cases") > 0
C24_Witness_Failed ==
    /\ "run" \in failed
    /\ pc = "exit"

\* C25: a run of upload_results that is not interrupted from outside ends
\* either with code 0, and then all seven stages ran and succeeded, or by
\* exit(1), and then a stage failed and a diagnostic was logged before; it
\* never ends in any other way.
C25_ExitZeroOrOne ==
    /\ pc # "raised"
    /\ pc = "done" =>
          /\ exit_code = 0
          /\ stages = StageOrder
          /\ failed = {}
    /\ pc = "exit" =>
          /\ exit_code = 1
          /\ failed # {}
          /\ logs # {}
    /\ pc \notin {"done", "exit"} => exit_code = 0 - 1

\* what C26 says of one answer to get_projects
Classified(response) ==
    LET pd == get_project_id(response, ProjectName)
        hits == {i \in DOMAIN response.projects :
                    response.projects[i].name = ProjectName}
    IN IF Truthy(response.error_message)
       THEN /\ pd.project_id = other_error
            /\ pd.error_message = response.error_message
       ELSE IF hits = {}
       THEN /\ pd.project_id = not_existing_project
            /\ pd.error_message = <<"project_doesnt_exists">>
       ELSE IF Cardinality(hits) > 1
       THEN /\ pd.project_id = multiple_project_same_name
            /\ pd.error_message = <<"more_than_one_project">>
       ELSE \E i \in hits :
               /\ pd.project_id = response.projects[i].id
               /\ pd.suite_mode = response.projects[i].suite_mode
               /\ pd.error_message = NoError

\* C26: get_project_id classifies every answer to get_projects: a Transport
\* error gives other_error with the error message; otherwise no project of
\* exactly the requested name gives not_existing_project, several give
\* multiple_project_same_name, and one gives its id and suite mode with an
\* empty error; what upload_results holds afterwards is one of these.
C26_ProjectClassified ==
    /\ pc = "project" => \A response \in ProjectResponses : Classified(response)
    /\ pc # "project" =>
          \/ /\ project_data.project_id = 1
             /\ project_data.suite_mode \in 1 .. 4
             /\ project_data.error_message = NoError
          \/ /\ project_data.project_id = other_error
             /\ project_data.error_message = TransportError
          \/ /\ project_data.project_id = not_existing_project
             /\ project_data.error_message = <<"project_doesnt_exists">>
          \/ /\ project_data.project_id = multiple_project_same_name
             /\ project_data.error_message = <<"more_than_one_project">>
\* each of the four classes has been returned
C26_Witness ==
    /\ pc = "suite"
    /\ project_data.project_id = 1
    /\ project_data.suite_mode = multiple_suites
C26_Witness_Ambiguous ==
    project_data.project_id = multiple_project_same_name
C26_Witness_NotFound ==
    project_data.project_id = not_existing_project /\ pc = "exit"
C26_Witness_Transport ==
    project_data.project_id = other_error /\ pc = "exit"

\* the controlling thread has left add_cases / add_results, by a return or
\* by an exception
BatchLeft ==
    kind # "none" /\ pc \in {"run", "close", "exit", "done", "raised", "interrupted"}

\* C27: once add_cases or add_results is left, by a return with or without
\* error or by the interrupt, every unit of the batch is finished or
\* cancelled, none is in flight and none is still queued to be sent.
C27_NoWorkerOutlivesBatch ==
    BatchLeft =>
        /\ \A u \in units : fut[u] \in {"finished", "cancelled_notified"}
        /\ Running = {}
        /\ Queued = {}
        /\ \A u \in units : fut[u] = "finished" <=> u \in sent
C27_Witness ==
    /\ BatchReturned
    /\ Truthy(batch_error)
    /\ \E u \in units : fut[u] = "cancelled_notified"
    /\ \E u \in units : fut[u] = "finished"
C27_Witness_Interrupted ==
    /\ pc = "interrupted"
    /\ \E u \in units : fut[u] = "cancelled_notified"
    /\ \E u \in units : fut[u] = "finished"
C27_Witness_Normal ==
    /\ pc = "close"
    /\ units # {}
    /\ ~Truthy(batch_error)

\* C28: at every moment of a batch the number of units inside a Transport
\* call is at most the width of the pool of that batch kind.
C28_InFlightWithinWidth ==
    /\ kind = "add_case" => Cardinality(Running) <= MAX_WORKERS_ADD_CASE
    /\ kind = "add_results" => Cardinality(Running) <= MAX_WORKERS_ADD_RESULTS
\* the pool is full while a unit waits in the queue
C28_Witness ==
    /\ kind = "add_case"
    /\ Cardinality(Running) = MAX_WORKERS_ADD_CASE
    /\ \E u \in units : fut[u] = "pending"
C28_Witness_Results ==
    /\ kind = "add_results"
    /\ Cardinality(Running) = MAX_WORKERS_ADD_RESULTS

\* C29: within one upload each create unit (suite, section, case, results
\* chunk), the create-run call and the close-run call is sent to Transport
\* at most once, also after it failed: the sequential creators post each
\* body they created once plus at most the one body that was rejected, a
\* batch posts once per unit a worker took, and add_run and close_run are
\* posted at most once.
C29_NoRetry ==
    /\ CallCount("add_suite") <= 1
    /\ CallCount("add_section") <= Cardinality(SecIdx)
    /\ CallCount("add_section") <= Cardinality(item_ret["sections"].added) + 1
    /\ "sections" \notin failed =>
           CallCount("add_section") = Cardinality(item_ret["sections"].added)
    /\ CallCount("add_case") <= Cardinality(CaseIdx)
    /\ CallCount(Endpoint("add_results")) <= MaxChunks
    /\ kind # "none" => CallCount(Endpoint(kind)) = Cardinality(sent)
    /\ CallCount("add_run") <= 1
    /\ CallCount("close_run") <= 1
\* a section was rejected and the upload ended after that one post
C29_Witness ==
    /\ pc = "exit"
    /\ item_ret["sections"].consent = "yes"
    /\ item_ret["sections"].result_code = 0 - 1
    /\ CallCount("add_section") = 1
\* a results chunk was rejected and the upload ended without a second post
C29_Witness_Batch ==
    /\ pc = "exit"
    /\ kind = "add_results"
    /\ \E u \in sent : fut[u] = "finished" /\ Truthy(res[u])
    /\ CallCount(Endpoint("add_results")) = Cardinality(sent)
\* the create-run call was rejected
C29_Witness_Run ==
    /\ pc \in {"exit", "raised"}
    /\ "run" \in failed
    /\ CallCount("add_run") = 1

\* the units the loop of handle_futures took as successes
HandledOk == {u \in yielded : fut[u] = "finished" /\ ~Truthy(res[u])}
\* handle_futures returned without an interrupt and the batch call is over
ReturnedNormally ==
    kind # "none" /\ ~interrupted /\ pc \notin {"drain", "cancel", "join"}
C30_Witness_Partial ==
    /\ pc = "exit"
    /\ kind = "add_results"
    /\ 0 < progress
    /\ progress < results_amount(kind, units)
\* a unit succeeded after the loop broke: it is kept but not counted
C30_Witness_Salvaged ==
    /\ ReturnedNormally
    /\ \E u \in units \ yielded : fut[u] = "finished" /\ ~Truthy(res[u])
    /\ progress = 0

\* recomputing the diffs against the remote side as it is now
SectionDiffNow ==
    check_missing_section_ids(
        store, [error_message |-> NoError, ids |-> RemoteSectionIds]).missing
CaseDiffNow ==
    check_missing_test_cases_ids(
        store, [error_message |-> NoError, ids |-> RemoteCaseIds]).missing
\* C31: an add_case request is issued only after the sections stage, and the
\* section id it targets is one the remote side holds: listed by
\* get_sections or created earlier in the run; the section and case diff
\* queries use the suite id the suite stage returned.
C31_ParentKnownBeforeChild ==
    /\ CallCount("add_case") > 0 =>
           /\ item_ret["sections"].result_code = 1
           /\ \A c \in sent : TargetSection(store, c) \in RemoteSectionIds
    /\ CallCount("get_sections") + CallCount("get_cases") > 0 =>
           store.suite_id = suite_ret.suite_id

\* C37: after a reconciliation stage returned success following consent,
\* the diff recomputed against the remote side is empty.
C37_DiffEmptyAfterSuccess ==
    /\ (item_ret["sections"].consent = "yes"
        /\ item_ret["sections"].result_code = 1) => SectionDiffNow = {}
    /\ (item_ret["cases"].consent = "yes"
        /\ item_ret["cases"].result_code = 1) => CaseDiffNow = {}

\* the controlling thread is inside a batch call
InBatch == pc \in {"drain", "cancel", "join"}
\* C32: with fair workers and Transport calls that return, every batch call
\* returns to the controlling thread, after all units finished as well as
\* after a failure and its cancellation; no cancelled unit keeps it waiting.
C32_BatchReturns == InBatch ~> ~InBatch
\* a batch returned after a failure whose cancellation took a queued unit
C32_Witness ==
    /\ ~InBatch
    /\ kind # "none"
    /\ Truthy(batch_error)
    /\ \E u \in units : fut[u] = "cancelled_notified"
\* a batch returned after every unit finished
C32_Witness_AllFinished ==
    /\ ~InBatch
    /\ kind # "none"
    /\ ~interrupted
    /\ units # {}
    /\ \A u \in units : fut[u] = "finished" /\ ~Truthy(res[u])

\* the identifiers a local tree or a listing of this model can hold (0: none)
AnyId == 0 .. CreatedId(MaxSections + MaxCases)
\* ret is what a check of the local ids against response has to return
ExactDifference(ret, local, response) ==
    IF ~Truthy(response.error_message)
    THEN /\ ret.error_message = NoError
         /\ \A x \in AnyId :
              x \in ret.missing <=> (x \in local /\ x \notin response.ids)
         /\ ret.missing \subseteq AnyId
         /\ 0 \in local => 0 \in ret.missing
    ELSE /\ ret.missing = {}
         /\ ret.error_message = response.error_message
\* C33: when the listing succeeds, check_missing_section_ids and
\* check_missing_test_cases_ids return exactly the local ids that the remote
\* listing does not hold, an absent local id included, with an empty error;
\* when it fails they return an empty list with the error.
C33_CheckReturnsDifference ==
    /\ pc = "sections" =>
         \A response \in SectionResponses :
            ExactDifference(check_missing_section_ids(store, response),
                            {store.sections[i] : i \in SecIdx}, response)
    /\ pc = "cases" =>
         \A response \in CaseResponses :
            ExactDifference(check_missing_test_cases_ids(store, response),
                            {store.cases[i] : i \in CaseIdx}, response)
\* the cases check ran on a tree with a declared id the remote side holds
\* and a test case without id, and reported a missing item
C33_Witness ==
    /\ item_ret["cases"].ran
    /\ ~Truthy(item_ret["cases"].check_error)
    /\ item_ret["cases"].missing
    /\ \E i \in CaseIdx : store.cases[i] # 0 /\ store.cases[i] \in remote.cases
    /\ \E i \in CaseIdx : store.cases[i] = 0 \/ store.cases[i] = CreatedId(i)
    /\ item_ret["cases"].consent = "yes"
\* the sections check failed in Transport
C33_Witness_Error ==
    /\ item_ret["sections"].ran
    /\ Truthy(item_ret["sections"].check_error)
    /\ item_ret["sections"].prompts = 0

\* C34: when a batch fails, the salvage result that replaces the list of the
\* completion loop holds every response that loop had recorded as
\* successful, at whatever moment after the failure it is computed and in the
\* set the batch call returns.
C34_SalvageKeepsRecorded ==
    /\ (kind # "none" /\ Truthy(error_message)) =>
           Range(responses) \subseteq retrieve_results_after_cancelling(fut)
    /\ (BatchReturned /\ Truthy(batch_error)) =>
           Range(responses) \subseteq completed
\* the loop had recorded a success before it saw the failure
C34_Witness ==
    /\ BatchReturned
    /\ Truthy(batch_error)
    /\ responses # << >>
    /\ \E u \in completed : u \in Range(responses) /\ ~Truthy(res[u])

\* C35: when no unit of a batch fails and no interrupt occurs, the batch
\* returns an empty error and each of its units exactly once, in whatever
\* order the workers finished, and no cancel is issued.
C35_AllSucceedAllReturned ==
    (ReturnedNormally /\ \A u \in units : ~Truthy(res[u])) =>
        /\ batch_error = NoError
        /\ completed = units
        /\ Len(responses) = Cardinality(units)
        /\ Injective(responses)
        /\ Range(responses) = units
        /\ \A u \in units : fut[u] = "finished"
        /\ ci = 0
        /\ cancel_ok = {}
\* both chunks succeeded and the second one finished first
C35_Witness ==
    /\ ReturnedNormally
    /\ kind = "add_results"
    /\ observed = <<2, 1>>
    /\ \A u \in units : ~Truthy(res[u])
    /\ completed = {1, 2}
\* the same with the units finishing in submission order
C35_Witness_InOrder ==
    /\ ReturnedNormally
    /\ observed = <<1, 2>>
    /\ \A u \in units : ~Truthy(res[u])
    /\ completed = {1, 2}

\* the position of the first body Transport rejected (past the end: none)
FirstRejected ==
    IF \E u \in units : Truthy(res[u])
    THEN CHOOSE u \in units :
            Truthy(res[u]) /\ \A v \in units : Truthy(res[v]) => u <= v
    ELSE Cardinality(units) + 1
\* C36: add_suites and add_sections send their create requests one at a
\* time in body order and stop at the first failure: no request is sent
\* after a failed one, and the resources returned and merged are exactly the
\* bodies created before the failure, together with that first error.
C36_SequentialStopsAtFirstFailure ==
    /\ \A i \in DOMAIN observed : observed[i] = i
    /\ CallCount(kind) = Len(observed)
    /\ \A i \in DOMAIN observed :
          Truthy(res[observed[i]]) => i = Len(observed)
    /\ pc = "returned" =>
          LET summary == add_sequential(SortedSeq(units), FirstRejected)
          IN /\ completed = 1 .. (FirstRejected - 1)
             /\ responses = SortedSeq(completed)
             /\ batch_error =
                    IF FirstRejected <= Cardinality(units)
                    THEN res[FirstRejected] ELSE NoError
             /\ UpdateKeyword(kind) \in updates <=> completed # {}
             /\ summary.created = responses
             /\ summary.posts = Len(observed)
             /\ Truthy(summary.error_message) <=> Truthy(batch_error)
\* the second of three bodies was rejected: one resource returned, the third
\* body never posted
C36_Witness ==
    /\ pc = "returned"
    /\ Cardinality(units) = 3
    /\ FirstRejected = 2
    /\ completed = {1}
    /\ Len(observed) = 2
    /\ Truthy(batch_error)

\* the suite stage returned success
SuiteSucceeded == SuiteResolved /\ suite_ret.result_code = 1
\* C38: after the suite stage succeeded, the suite id in the data provider,
\* which the section and case diff queries read, is the suite id the stage
\* returned, and neither changes for the rest of the run.
C38_SuiteIdFixedAfterResolution ==
    [][/\ SuiteSucceeded' => store'.suite_id = suite_ret'.suite_id
       /\ SuiteSucceeded =>
              /\ store'.suite_id = store.suite_id
              /\ suite_ret'.suite_id = suite_ret.suite_id]_vars
\* the whole upload ran on the first of two suites listed for a project in
\* single-suite mode
C38_Witness ==
    /\ pc = "done"
    /\ SuiteSucceeded
    /\ suite_ret.pinned = 0
    /\ suite_ret.listed = 2
    /\ store.suite_id = suite_ret.suite_id
    /\ CallCount("get_sections") = 1
    /\ CallCount("get_cases") = 1
\* the same on a suite the stage created
C38_Witness_Created ==
    /\ pc = "done"
    /\ SuiteSucceeded
    /\ suite_ret.consent = "yes"
    /\ store.suite_id = suite_ret.suite_id

====
